---- MODULE Spec2Model ----
(***************************************************************************)
(* Knowledge-graph query engine of Marvel-Graph-LLM                        *)
(* (src/app/kg_query_engin.py): the typed directed multigraph              *)
(* (KnowledgeGraph), the loader from_graphml, the construction helpers,    *)
(* entity recognition and intent dispatch (QueryInterpreter) and the       *)
(* relation-chain traversal (GraphExecutor).                               *)
(*                                                                         *)
(* Strings are sequences of one-character strings, so that lower(),        *)
(* replace() and the substring test `in` are computed, not assumed.        *)
(***************************************************************************)
EXTENDS Integers, Sequences, FiniteSets, TLC

VARIABLES
    nodes,        \* kg.G.nodes: node names in insertion order
    node_attrs,   \* kg.G.nodes[n]: attribute dictionary of every node
    edges,        \* kg.G edges in insertion order: [src, dst, relation]
    helper_calls, \* number of construction-helper calls made so far
    raw,          \* the source graph handed to from_graphml
    nlp,          \* QueryInterpreter._nlp: the entity ruler, when spaCy is there
    similarity,   \* the sentence model: question -> cosine score of each template
    intent_templates, \* QueryInterpreter.intent_templates: label -> relation chain
    prev,         \* the operation before the last one
    call,         \* the last operation: its name, its input and its outcome
    inflight,     \* the calls in progress: per thread, its position and its locals
    team_ids,     \* generate_data: team name -> team_id
    gene_ids,     \* generate_data: gene name -> gene_id
    power_ids,    \* generate_data: power name -> power_id
    rows,         \* generate_data: the node tables and the link tables
    heroes        \* generate_data: the entries of CHARACTERS the loop has processed

vars == <<nodes, node_attrs, edges, helper_calls, raw, nlp, similarity,
          intent_templates, prev, call, inflight,
          team_ids, gene_ids, power_ids, rows, heroes>>

\* the state of the dataset generator
generator == <<team_ids, gene_ids, power_ids, rows, heroes>>

----------------------------------------------------------------------------
(* Bounds of the model *)

MaxHelperCalls == 1   \* construction-helper calls after the load
MaxChain == 2         \* hops of a hand-made plan
MaxNameLen == 3       \* characters of an entity name in the recognition scenarios

----------------------------------------------------------------------------
(* Generic helpers on sequences *)

Range(s) == {s[i] : i \in 1..Len(s)}

RECURSIVE Flatten(_)
Flatten(ss) == IF ss = <<>> THEN <<>> ELSE Head(ss) \o Flatten(Tail(ss))

SeqsUpTo(S, n) == UNION {[1..k -> S] : k \in 0..n}

Min(S) == CHOOSE x \in S : \A y \in S : x <= y

\* the elements of the set of integers S in increasing order
RECURSIVE Ascending(_)
Ascending(S) == IF S = {} THEN <<>> ELSE <<Min(S)>> \o Ascending(S \ {Min(S)})

Count(s, x) == Cardinality({i \in 1..Len(s) : s[i] = x})

----------------------------------------------------------------------------
(* Vocabulary *)

Absent == "<absent>"
Unknown == "Unknown"
RELATED_TO == "RELATED_TO"
Kinds == {"Character", "Power", "Gene", "Team"}
Relations == {"POSSESSES_POWER", "HAS_MUTATION", "CONFERS", "MEMBER_OF"}

\* entity names used by the executor scenarios
W == <<"w">>
G == <<"g">>
P == <<"p">>

----------------------------------------------------------------------------
(* KnowledgeGraph: networkx MultiDiGraph *)

NoAttrs == [label |-> Absent, type |-> Absent]

\* G.add_node(name, **attrs): a new node is appended, an existing node keeps
\* its place and has the given attributes updated
AddNodeNodes(ns, n) == IF n \in Range(ns) THEN ns ELSE Append(ns, n)

AddNodeAttrs(na, n, upd) ==
    LET old == IF n \in DOMAIN na THEN na[n] ELSE NoAttrs
        new == [k \in DOMAIN old |-> IF k \in DOMAIN upd THEN upd[k] ELSE old[k]]
    IN  [m \in (DOMAIN na) \cup {n} |-> IF m = n THEN new ELSE na[m]]

\* G.add_edge(src, dst, relation=rel): missing endpoints are created, src first
AddEdgeNodes(ns, s, d) == AddNodeNodes(AddNodeNodes(ns, s), d)
AddEdgeAttrs(na, s, d) == AddNodeAttrs(AddNodeAttrs(na, s, <<>>), d, <<>>)
AddEdgeEdges(es, s, d, rel) == Append(es, [src |-> s, dst |-> d, relation |-> rel])

\* G.remove_node(n) on the public self.G: the node goes, with its attributes
\* and every edge into or out of it; the other nodes keep their order
RemoveNodeNodes(ns, n) == SelectSeq(ns, LAMBDA m : m # n)
RemoveNodeAttrs(na, n) == [m \in (DOMAIN na) \ {n} |-> na[m]]
RemoveNodeEdges(es, n) == SelectSeq(es, LAMBDA e : e.src # n /\ e.dst # n)

\* nbunch_iter of G.in_edges(n)/G.out_edges(n): a node of the graph stands for
\* itself; any other string is iterated as a container of its characters and
\* the characters that are nodes are kept (once each, in order)
NBunch(ns, n) ==
    IF n \in Range(ns) THEN <<n>>
    ELSE LET hit == {i \in 1..Len(n) : /\ <<n[i]>> \in Range(ns)
                                        /\ \A j \in 1..(i-1) : n[j] # n[i]}
             idx == Ascending(hit)
         IN  [k \in 1..Len(idx) |-> <<n[idx[k]]>>]

\* G.out_edges(n, data=True) for a node n: the adjacency dictionary of n lists
\* the successors in the order of their first edge from n, and under each
\* successor the parallel edges in insertion order
OutEdgesOf(es, n) ==
    LET mine == {i \in 1..Len(es) : es[i].src = n}
        first(i) == Min({j \in mine : es[j].dst = es[i].dst})
        idx == Ascending({first(i) * (Len(es) + 1) + i : i \in mine})
    IN  [k \in 1..Len(idx) |-> es[idx[k] % (Len(es) + 1)]]

\* G.in_edges(n, data=True) for a node n: predecessors in the order of their
\* first edge into n, then the parallel edges in insertion order
InEdgesOf(es, n) ==
    LET mine == {i \in 1..Len(es) : es[i].dst = n}
        first(i) == Min({j \in mine : es[j].src = es[i].src})
        idx == Ascending({first(i) * (Len(es) + 1) + i : i \in mine})
    IN  [k \in 1..Len(idx) |-> es[idx[k] % (Len(es) + 1)]]

out_edges(ns, es, n) ==
    LET b == NBunch(ns, n) IN Flatten([k \in 1..Len(b) |-> OutEdgesOf(es, b[k])])

in_edges(ns, es, n) ==
    LET b == NBunch(ns, n) IN Flatten([k \in 1..Len(b) |-> InEdgesOf(es, b[k])])

----------------------------------------------------------------------------
(* GraphExecutor.execute *)

\* mutation: the reverse lookup is applied to Power only
ReverseOnlyPower(entity_type) == entity_type = "Power"

\* the test that selects the direction of a hop, `entity_type in ["Power", "Team"]`
Reverse(entity_type) == entity_type \in {"Power", "Team"}

\* the inner loops of execute for one working node n: the sources of the
\* incoming edges of n that carry rel (rev), or the targets of the outgoing ones
CollectDir(ns, es, n, rel, rev) ==
    IF rev
    THEN LET ie == in_edges(ns, es, n)
             sel == Ascending({i \in 1..Len(ie) : ie[i].relation = rel})
         IN  [k \in 1..Len(sel) |-> ie[sel[k]].src]
    ELSE LET oe == out_edges(ns, es, n)
             sel == Ascending({i \in 1..Len(oe) : oe[i].relation = rel})
         IN  [k \in 1..Len(sel) |-> oe[sel[k]].dst]

\* mutation: the direction is taken anew from the kind of the node at hand
CollectPerHop(ns, es, n, rel, entity_type) ==
    LET kind == IF n \in DOMAIN node_attrs /\ node_attrs[n].label # Absent
                THEN node_attrs[n].label ELSE entity_type
    IN  CollectDir(ns, es, n, rel, Reverse(kind))

\* mutation: the relation label of the edge is not compared with the hop's
CollectAnyRelation(ns, es, n, rel, entity_type) ==
    IF Reverse(entity_type)
    THEN LET ie == in_edges(ns, es, n) IN [k \in 1..Len(ie) |-> ie[k].src]
    ELSE LET oe == out_edges(ns, es, n) IN [k \in 1..Len(oe) |-> oe[k].dst]

\* the body of `for n in nodes` for one n, the direction chosen from the
\* plan's start_type
Collect(ns, es, n, rel, entity_type) ==
    CollectDir(ns, es, n, rel, Reverse(entity_type))

\* nxt at the end of `for n in nodes`
NextWorking(ns, es, working, rel, entity_type) ==
    Flatten([k \in 1..Len(working) |-> Collect(ns, es, working[k], rel, entity_type)])

\* mutation: an entity already collected in this hop is not collected again
ExpandDistinct(ns, es, working, rel, entity_type) ==
    LET nxt == NextWorking(ns, es, working, rel, entity_type)
        keep == Ascending({i \in 1..Len(nxt) : \A j \in 1..(i - 1) : nxt[j] # nxt[i]})
    IN  [k \in 1..Len(keep) |-> nxt[keep[k]]]

\* mutation: a hop that collects nothing leaves the working list as it was
ExpandOrKeep(ns, es, working, rel, entity_type) ==
    LET nxt == NextWorking(ns, es, working, rel, entity_type)
    IN  IF nxt = <<>> THEN working ELSE nxt

\* one hop: `nodes = nxt`
Expand(ns, es, working, rel, entity_type) ==
    NextWorking(ns, es, working, rel, entity_type)

\* the loop `for rel in plan["relation_chain"]` from the working list `working`
RECURSIVE Walk(_, _, _, _, _)
Walk(ns, es, working, chain, entity_type) ==
    IF chain = <<>> THEN working
    ELSE Walk(ns, es, Expand(ns, es, working, Head(chain), entity_type),
              Tail(chain), entity_type)

\* mutation: the entities whose kind is not the plan's target_type are dropped
executeFiltered(ns, es, plan) ==
    LET found == Walk(ns, es, <<plan.start_entity>>, plan.relation_chain, plan.start_type)
        keep == Ascending({i \in 1..Len(found) :
                             \/ plan.target_type = "Unknown"
                             \/ /\ found[i] \in DOMAIN node_attrs
                                /\ node_attrs[found[i]].label = plan.target_type})
    IN  [k \in 1..Len(keep) |-> found[keep[k]]]

execute(ns, es, plan) ==
    Walk(ns, es, <<plan.start_entity>>, plan.relation_chain, plan.start_type)

----------------------------------------------------------------------------
(* KnowledgeGraph.from_graphml *)

\* GraphML data values keep the type of their key: a string is its text, the
\* int datum 0 and the boolean datum false are the values Python treats as false
IntZero == "int:0"
BoolFalse == "boolean:false"
Truthy(v) == v \notin {Absent, "", IntZero, BoolFalse}

NoEdgeAttrs == [relation |-> Absent, label |-> Absent, type |-> Absent, name |-> Absent]

\* mutation: the attribute `type` is not tried
ResolveRelationNoType(attrs) ==
    IF Truthy(attrs.relation) THEN attrs.relation
    ELSE IF Truthy(attrs.label) THEN attrs.label
    ELSE IF Truthy(attrs.name) THEN attrs.name
    ELSE RELATED_TO

\* attrs.get("relation") or attrs.get("label") or attrs.get("type")
\*   or attrs.get("name") or "RELATED_TO"
ResolveRelation(attrs) ==
    IF Truthy(attrs.relation) THEN attrs.relation
    ELSE IF Truthy(attrs.label) THEN attrs.label
    ELSE IF Truthy(attrs.type) THEN attrs.type
    ELSE IF Truthy(attrs.name) THEN attrs.name
    ELSE RELATED_TO

\* the node order of the graph read_graphml returns: the declared nodes, then
\* the endpoints the edges mention first
RECURSIVE RawNodeOrder(_, _)
RawNodeOrder(ns, es) ==
    IF es = <<>> THEN ns
    ELSE RawNodeOrder(AddEdgeNodes(ns, Head(es).src, Head(es).dst), Tail(es))

\* mutation: an undirected graph is taken as it is, every edge in the
\* direction in which the file lists it
MirrorNone(es) == es

\* raw.to_directed() of an undirected graph: every edge once from each of its
\* endpoints (a self-loop once), listed by node and then by neighbour
Mirror(es) ==
    Flatten([i \in 1..Len(es) |->
        IF es[i].src = es[i].dst THEN <<es[i]>>
        ELSE <<es[i], [src |-> es[i].dst, dst |-> es[i].src, attrs |-> es[i].attrs]>>])

\* raw.edges(data=True) of a directed graph: by source node in node order,
\* each node's edges in the order of its adjacency dictionary
RawEdges(r) ==
    LET decl == [i \in 1..Len(r.nodes) |-> r.nodes[i].id]
        order == RawNodeOrder(decl, r.edges)
        es == IF r.directed THEN r.edges ELSE Mirror(r.edges)
    IN  Flatten([k \in 1..Len(order) |-> OutEdgesOf(es, order[k])])

RECURSIVE LoadNodeAttrs(_, _)
LoadNodeAttrs(na, decl) ==
    IF decl = <<>> THEN na
    ELSE LoadNodeAttrs(AddNodeAttrs(na, Head(decl).id, Head(decl).attrs), Tail(decl))

RECURSIVE LoadEdgeAttrs(_, _)
LoadEdgeAttrs(na, es) ==
    IF es = <<>> THEN na
    ELSE LoadEdgeAttrs(AddEdgeAttrs(na, Head(es).src, Head(es).dst), Tail(es))

\* the graph from_graphml returns for the source graph r
LoadedNodes(r) ==
    RawNodeOrder([i \in 1..Len(r.nodes) |-> r.nodes[i].id], r.edges)

LoadedAttrs(r) == LoadEdgeAttrs(LoadNodeAttrs(<<>>, r.nodes), r.edges)

LoadedEdges(r) ==
    LET re == RawEdges(r)
    IN  [i \in 1..Len(re) |->
            [src |-> re[i].src, dst |-> re[i].dst,
             relation |-> ResolveRelation(re[i].attrs)]]

----------------------------------------------------------------------------
(* Text: str.lower, str.replace and the substring test *)

UpperCase == <<"A","B","C","D","E","F","G","H","I","J","K","L","M",
               "N","O","P","Q","R","S","T","U","V","W","X","Y","Z">>
LowerCase == <<"a","b","c","d","e","f","g","h","i","j","k","l","m",
               "n","o","p","q","r","s","t","u","v","w","x","y","z">>

\* the lower-case form of every upper-case letter
LowerOf ==
    [c \in {UpperCase[i] : i \in 1..26} |-> LowerCase[CHOOSE i \in 1..26 : UpperCase[i] = c]]

LowerChar(c) == IF c \in DOMAIN LowerOf THEN LowerOf[c] ELSE c

\* s.lower()
lower(s) == [i \in 1..Len(s) |-> LowerChar(s[i])]

\* s.replace(a, b) for one-character a and b
replace(s, a, b) == [i \in 1..Len(s) |-> IF s[i] = a THEN b ELSE s[i]]

\* sub in s
Contains(sub, s) ==
    \E i \in 0..(Len(s) - Len(sub)) : SubSeq(s, i + 1, i + Len(sub)) = sub

Hyphen == "-"                 \* U+002D
NonBreakingHyphen == "U+2011" \* the one character U+2011

----------------------------------------------------------------------------
(* KnowledgeGraph.node_type *)

KeyError == "KeyError"

\* mutation: the kind is read from the attribute `type`
node_typeByType(ns, na, n) ==
    IF n \notin Range(ns) THEN KeyError
    ELSE IF na[n].type = Absent THEN Unknown
    ELSE na[n].type

\* self.G.nodes[node].get("label", "Unknown"); G.nodes[node] raises KeyError
\* for a name that is not a node
node_type(ns, na, n) ==
    IF n \notin Range(ns) THEN KeyError
    ELSE IF na[n].label = Absent THEN Unknown
    ELSE na[n].label

----------------------------------------------------------------------------
(* QueryInterpreter *)

None == <<"None">>

\* the keys of intent_templates in dictionary order
CatalogOrder ==
    <<"direct_power", "mutation_power", "team", "gene_power", "character_gene">>

\* mutation: the direct_power template follows the edges without a relation
CatalogWithSentinel ==
    [k \in Range(CatalogOrder) |->
        CASE k = "direct_power" -> <<RELATED_TO>>
          [] k = "mutation_power" -> <<"HAS_MUTATION", "CONFERS">>
          [] k = "team" -> <<"MEMBER_OF">>
          [] k = "gene_power" -> <<"CONFERS">>
          [] k = "character_gene" -> <<"HAS_MUTATION">>]

Catalog ==
    [k \in Range(CatalogOrder) |->
        CASE k = "direct_power" -> <<"POSSESSES_POWER">>
          [] k = "mutation_power" -> <<"HAS_MUTATION", "CONFERS">>
          [] k = "team" -> <<"MEMBER_OF">>
          [] k = "gene_power" -> <<"CONFERS">>
          [] k = "character_gene" -> <<"HAS_MUTATION">>]

\* mutation: the fallback loop tries the stored name only
MatchesVerbatim(node_name, q_low) == Contains(lower(node_name), q_low)

\* the test of the fallback loop for one node name
Matches(node_name, q_low) ==
    LET node_lower == lower(node_name)
    IN  \/ Contains(node_lower, q_low)
        \/ Contains(replace(node_lower, NonBreakingHyphen, Hyphen), q_low)
        \/ Contains(replace(node_lower, Hyphen, NonBreakingHyphen), q_low)

\* the fallback loop: the first node, in the order of G.nodes, that matches
SubstringPass(ns, query) ==
    LET q_low == lower(query)
        hit == {i \in 1..Len(ns) : Matches(ns[i], q_low)}
    IN  IF hit = {} THEN None ELSE ns[Min(hit)]

\* mutation: the first span of the recognizer is returned unchecked
SpacyPassUnchecked(ns, ruler, query) ==
    IF ruler.available /\ ruler.ents[query] # <<>> THEN ruler.ents[query][1] ELSE None

\* the spaCy pass: the first span of doc.ents that is a node of the graph
SpacyPass(ns, ruler, query) ==
    IF ~ruler.available THEN None
    ELSE LET ents == ruler.ents[query]
             ok == {i \in 1..Len(ents) : ents[i] \in Range(ns)}
         IN  IF ok = {} THEN None ELSE ents[Min(ok)]

\* mutation: the substring loop is tried before the spans of the recognizer
ExtractFallbackFirst(ns, ruler, query) ==
    LET found == SubstringPass(ns, query)
    IN  IF found # None THEN found ELSE SpacyPass(ns, ruler, query)

\* mutation: with a recognizer configured the substring loop is not reached
ExtractRulerOnly(ns, ruler, query) ==
    IF ruler.available THEN SpacyPass(ns, ruler, query) ELSE SubstringPass(ns, query)

_extract_entity(ns, ruler, query) ==
    LET found == SpacyPass(ns, ruler, query)
    IN  IF found # None THEN found ELSE SubstringPass(ns, query)

\* any(word in q_low for word in ["gene", "mutation", "mutant"])
GeneWords == {<<"g","e","n","e">>, <<"m","u","t","a","t","i","o","n">>,
              <<"m","u","t","a","n","t">>}

AsksForGene(query) == \E word \in GeneWords : Contains(word, lower(query))

\* mutation: of several keys with the largest score the last one is taken
BestIntentLast(scores) ==
    CatalogOrder[CHOOSE i \in 1..Len(CatalogOrder) :
                    /\ \A j \in 1..Len(CatalogOrder) : scores[j] <= scores[i]
                    /\ \A j \in (i + 1)..Len(CatalogOrder) : scores[j] < scores[i]]

\* max(self.intent_templates, key=score): the first key with the largest score
BestIntent(scores) ==
    CatalogOrder[Min({i \in 1..Len(CatalogOrder) :
                        \A j \in 1..Len(CatalogOrder) : scores[j] <= scores[i]})]

\* the embedding branch: the intent, and its chain, which is the list object
\* stored in intent_templates itself (shared names the template it belongs to)
Semantic(templates, scores) ==
    LET intent == BestIntent(scores)
    IN  [intent |-> intent, relation_chain |-> templates[intent],
         encoded |-> TRUE, shared |-> intent]

Forced(intent, chain) ==
    [intent |-> intent, relation_chain |-> chain, encoded |-> FALSE, shared |-> "none"]

\* mutation: the gene words are looked for before the kind of the entity
DispatchWordsFirst(entity_type, query, templates, scores) ==
    IF AsksForGene(query) THEN Forced("character_gene", <<"HAS_MUTATION">>)
    ELSE IF entity_type = "Gene" THEN Forced("gene_power", <<"CONFERS">>)
    ELSE IF entity_type = "Power" THEN Forced("power_character", <<"POSSESSES_POWER">>)
    ELSE IF entity_type = "Team" THEN Forced("team_character", <<"MEMBER_OF">>)
    ELSE Semantic(templates, scores)

\* mutation: an entity without a kind is handled like a Character
DispatchUnknownAsCharacter(entity_type, query, templates, scores) ==
    IF entity_type = "Gene" THEN Forced("gene_power", <<"CONFERS">>)
    ELSE IF entity_type = "Power" THEN Forced("power_character", <<"POSSESSES_POWER">>)
    ELSE IF entity_type = "Team" THEN Forced("team_character", <<"MEMBER_OF">>)
    ELSE IF AsksForGene(query) THEN Forced("character_gene", <<"HAS_MUTATION">>)
    ELSE Semantic(templates, scores)

\* step 2 of interpret: the if/elif chain on entity_type
Dispatch(entity_type, query, templates, scores) ==
    IF entity_type = "Gene" THEN Forced("gene_power", <<"CONFERS">>)
    ELSE IF entity_type = "Power" THEN Forced("power_character", <<"POSSESSES_POWER">>)
    ELSE IF entity_type = "Team" THEN Forced("team_character", <<"MEMBER_OF">>)
    ELSE IF entity_type = "Character"
    THEN IF AsksForGene(query) THEN Forced("character_gene", <<"HAS_MUTATION">>)
         ELSE Semantic(templates, scores)
    ELSE Semantic(templates, scores)

\* the characters of the intent labels interpret assigns
IntentText(intent) ==
    CASE intent = "direct_power" -> <<"d","i","r","e","c","t","_","p","o","w","e","r">>
      [] intent = "mutation_power" ->
            <<"m","u","t","a","t","i","o","n","_","p","o","w","e","r">>
      [] intent = "team" -> <<"t","e","a","m">>
      [] intent = "gene_power" -> <<"g","e","n","e","_","p","o","w","e","r">>
      [] intent = "character_gene" ->
            <<"c","h","a","r","a","c","t","e","r","_","g","e","n","e">>
      [] intent = "power_character" ->
            <<"p","o","w","e","r","_","c","h","a","r","a","c","t","e","r">>
      [] intent = "team_character" ->
            <<"t","e","a","m","_","c","h","a","r","a","c","t","e","r">>

\* s.endswith(suffix)
EndsWith(s, suffix) ==
    Len(suffix) <= Len(s) /\ SubSeq(s, Len(s) - Len(suffix) + 1, Len(s)) = suffix

\* intent.endswith("power")
EndsWithPower(intent) == EndsWith(IntentText(intent), <<"p","o","w","e","r">>)

\* mutation: the word power is looked for anywhere in the label
TargetTypeContainsPower(intent) ==
    IF Contains(<<"p","o","w","e","r">>, IntentText(intent)) THEN "Power"
    ELSE IF intent = "team" THEN "Team"
    ELSE IF intent = "character_gene" THEN "Gene"
    ELSE IF intent \in {"power_character", "team_character"} THEN "Character"
    ELSE Unknown

\* mutation: team_character is left out of the labels that give Character
TargetTypeNoTeamCharacter(intent) ==
    IF EndsWithPower(intent) THEN "Power"
    ELSE IF intent = "team" THEN "Team"
    ELSE IF intent = "character_gene" THEN "Gene"
    ELSE IF intent = "power_character" THEN "Character"
    ELSE Unknown

TargetType(intent) ==
    IF EndsWithPower(intent) THEN "Power"
    ELSE IF intent = "team" THEN "Team"
    ELSE IF intent = "character_gene" THEN "Gene"
    ELSE IF intent \in {"power_character", "team_character"} THEN "Character"
    ELSE Unknown

NoPlan == [start_entity |-> None, start_type |-> "", relation_chain |-> <<>>,
           target_type |-> ""]

Raised(error) ==
    [error |-> error, plan |-> NoPlan, intent |-> "", encoded |-> FALSE, shared |-> "none"]

\* QueryInterpreter.interpret(query): the error raised, or the plan returned
interpret(ns, na, ruler, templates, scores, query) ==
    LET start_entity == _extract_entity(ns, ruler, query)
        entity_type == node_type(ns, na, start_entity)
        d == Dispatch(entity_type, query, templates, scores)
    IN  IF start_entity = None THEN Raised("ValueError")
        ELSE IF entity_type = KeyError THEN Raised(KeyError)
        ELSE [error |-> "none",
              plan |-> [start_entity |-> start_entity, start_type |-> entity_type,
                        relation_chain |-> d.relation_chain,
                        target_type |-> TargetType(d.intent)],
              intent |-> d.intent, encoded |-> d.encoded, shared |-> d.shared]

\* mutation: the loop of execute consumes the chain it is given
ChainConsumed(chain) == <<>>

\* plan["relation_chain"] after execute has iterated over it
ChainAfterExecute(chain) == chain

----------------------------------------------------------------------------
(* Source graphs *)

Node(id, kind) == [id |-> id, attrs |-> [label |-> kind, type |-> Absent]]

\* an edge as generate_data.py writes it: the relation under `type`
TypedEdge(s, d, rel) ==
    [src |-> s, dst |-> d,
     attrs |-> [relation |-> Absent, label |-> Absent, type |-> rel, name |-> Absent]]

EmptySource == [directed |-> TRUE, nodes |-> <<>>, edges |-> <<>>]

\* W -HAS_MUTATION-> G -CONFERS-> P and W -POSSESSES_POWER-> P
MutantSource ==
    [directed |-> TRUE,
     nodes |-> <<Node(W, "Character"), Node(G, "Gene"), Node(P, "Power")>>,
     edges |-> <<TypedEdge(W, G, "HAS_MUTATION"), TypedEdge(G, P, "CONFERS"),
                 TypedEdge(W, P, "POSSESSES_POWER")>>]

SourceGraphs == {EmptySource, MutantSource}

----------------------------------------------------------------------------
(* The serving side: a graph is loaded, the interpreter and the executor are
   built on it, questions are answered (main, query_knowledge_graph) *)

CharW == <<"W">>
GeneK == <<"K">>
PowerP == <<"P">>
TeamS == <<"S">>
PlainZ == <<"Z">>

\* an edge that carries none of the four attributes
BareEdge(s, d) == [src |-> s, dst |-> d, attrs |-> NoEdgeAttrs]

\* W is a Character with the mutation K that confers P; W and the unlabelled
\* Z possess P directly; W is a member of S
ServingSource ==
    [directed |-> TRUE,
     nodes |-> <<Node(CharW, "Character"), Node(GeneK, "Gene"), Node(PowerP, "Power"),
                 Node(TeamS, "Team"), Node(PlainZ, Absent)>>,
     edges |-> <<TypedEdge(CharW, GeneK, "HAS_MUTATION"), TypedEdge(GeneK, PowerP, "CONFERS"),
                 TypedEdge(CharW, PowerP, "POSSESSES_POWER"),
                 TypedEdge(CharW, TeamS, "MEMBER_OF"),
                 TypedEdge(PlainZ, PowerP, "POSSESSES_POWER"),
                 BareEdge(PlainZ, TeamS)>>]

\* the labelled entities declared in another order, with two parallel
\* K -CONFERS-> P edges
ReorderedSource ==
    [directed |-> TRUE,
     nodes |-> <<Node(PowerP, "Power"), Node(TeamS, "Team"), Node(GeneK, "Gene"),
                 Node(CharW, "Character")>>,
     edges |-> <<TypedEdge(GeneK, PowerP, "CONFERS"), TypedEdge(CharW, TeamS, "MEMBER_OF"),
                 TypedEdge(GeneK, PowerP, "CONFERS"),
                 TypedEdge(CharW, GeneK, "HAS_MUTATION")>>]

ServingSources == {ServingSource, ReorderedSource}

Questions ==
    { <<"W">>,
      <<"W", " ", "g", "e", "n", "e">>,
      <<"k", " ", "m", "u", "t", "a", "n", "t">>,
      <<"p", " ", "g", "e", "n", "e">>,
      <<"S", " ", "m", "u", "t", "a", "t", "i", "o", "n">>,
      <<"Z", "?">>,
      <<"?">>,
      <<"P", " ", "W">>,
      <<"W", " ", "M", "u", "t", "a", "n", "t">>,
      <<"Z", " ", "g", "e", "n", "e">> }

\* the spans of the names in ns that stand verbatim in query, by position
Occurrences(ns, query) ==
    LET at == {i \in 1..Len(query) : <<query[i]>> \in Range(ns)}
        idx == Ascending(at)
    IN  [k \in 1..Len(idx) |-> <<query[idx[k]]>>]

\* the states of the recognizer: spaCy missing; a ruler that proposes the
\* names of ns; one that proposes the whole text first; one without patterns
NoRuler == [available |-> FALSE, ents |-> [q \in Questions |-> <<>>]]
ExactRuler(ns) == [available |-> TRUE, ents |-> [q \in Questions |-> Occurrences(ns, q)]]
NoisyRuler(ns) ==
    [available |-> TRUE, ents |-> [q \in Questions |-> <<lower(q)>> \o Occurrences(ns, q)]]
BlindRuler == [available |-> TRUE, ents |-> [q \in Questions |-> <<>>]]

Rulers(ns) == {NoRuler, ExactRuler(ns), NoisyRuler(ns), BlindRuler}

\* the states of the sentence model: the scores of the five templates, in
\* catalog order, for every question
PowerFirst == [q \in Questions |-> <<2, 1, 0, 0, 0>>]
AllEqual == [q \in Questions |-> <<1, 1, 1, 1, 1>>]
ByWording ==
    [q \in Questions |-> IF AsksForGene(q) THEN <<0, 0, 0, 1, 2>> ELSE <<0, 2, 2, 1, 0>>]

ModelStates == {PowerFirst, AllEqual, ByWording}

----------------------------------------------------------------------------
(* generate_data.py: ID assignment *)

\* the rows dictionary before the loop
NoRows ==
    [characters |-> <<>>, teams |-> <<>>, genes |-> <<>>, powers |-> <<>>,
     char_team |-> <<>>, char_gene |-> <<>>, gene_power |-> <<>>, char_power |-> <<>>]

\* the generator has not run: empty counters, empty tables
GeneratorIdle ==
    /\ team_ids = <<>>
    /\ gene_ids = <<>>
    /\ power_ids = <<>>
    /\ rows = NoRows
    /\ heroes = <<>>

\* counter.setdefault(key, value)
SetDefault(counter, key, value) ==
    IF key \in DOMAIN counter THEN counter
    ELSE [k \in (DOMAIN counter) \cup {key} |-> IF k = key THEN value ELSE counter[k]]

\* mutation: a new key is numbered len(counter)
next_idFromZero(counter, key) ==
    LET after == SetDefault(counter, key, Cardinality(DOMAIN counter))
    IN  [counter |-> after, id |-> after[key]]

\* next_id(counter, key): the counter after the call and the id returned
next_id(counter, key) ==
    LET after == SetDefault(counter, key, Cardinality(DOMAIN counter) + 1)
    IN  [counter |-> after, id |-> after[key]]

\* if id == len(table) + 1: table.append(row)
AppendIfNew(table, id, row) == IF id = Len(table) + 1 THEN Append(table, row) ELSE table

\* the inner loop over hero["powers"]: the counter and the three tables it
\* writes, after the powers left
RECURSIVE PowerLoop(_, _, _, _)
PowerLoop(state, cid, gid, left) ==
    IF left = <<>> THEN state
    ELSE LET n == next_id(state.power_ids, Head(left))
             pid == n.id
         IN  PowerLoop([power_ids |-> n.counter,
                        powers |-> AppendIfNew(state.powers, pid,
                                               [power_id |-> pid, name |-> Head(left)]),
                        gene_power |-> Append(state.gene_power,
                                              [gene_id |-> gid, power_id |-> pid]),
                        char_power |-> Append(state.char_power,
                                              [character_id |-> cid, power_id |-> pid])],
                       cid, gid, Tail(left))

----------------------------------------------------------------------------
(* Inputs of the operations *)

NameInputs == {W, G, P}
RelationInputs == {"POSSESSES_POWER", "HAS_MUTATION", "CONFERS"}
AddedRelationInputs == {"HAS_MUTATION", "CONFERS"}
StartTypeInputs == {"Character", "Power", "Team"}

PlanInputs ==
    {[start_entity |-> n, start_type |-> t, relation_chain |-> c, target_type |-> Unknown] :
        n \in NameInputs, t \in StartTypeInputs,
        c \in SeqsUpTo(RelationInputs, MaxChain) \ {<<>>}}

----------------------------------------------------------------------------
(* The program: a graph is loaded, extended with add_relationship, queried *)

Init ==
    /\ \E r \in SourceGraphs :
        /\ raw = r
        /\ nodes = LoadedNodes(r)
        /\ node_attrs = LoadedAttrs(r)
        /\ edges = LoadedEdges(r)
    /\ helper_calls = 0
    /\ inflight = <<>>
    /\ GeneratorIdle
    /\ nlp = NoRuler
    /\ similarity = PowerFirst
    /\ intent_templates = Catalog
    /\ prev = [op |-> "none"]
    /\ call = [op |-> "from_graphml"]

\* KnowledgeGraph.add_relationship(src, dst, rel)
add_relationship(s, d, rel) ==
    /\ call.op # "execute"
    /\ helper_calls < MaxHelperCalls
    /\ nodes' = AddEdgeNodes(nodes, s, d)
    /\ node_attrs' = AddEdgeAttrs(node_attrs, s, d)
    /\ edges' = AddEdgeEdges(edges, s, d, rel)
    /\ helper_calls' = helper_calls + 1
    /\ call' = [op |-> "add_relationship"]
    /\ UNCHANGED <<generator, inflight, raw, nlp, similarity, intent_templates, prev>>

\* GraphExecutor.execute(plan)
Execute(plan) ==
    /\ call.op # "execute"
    /\ call' = [op |-> "execute", plan |-> plan, result |-> execute(nodes, edges, plan)]
    /\ UNCHANGED <<generator, inflight, nodes, node_attrs, edges, helper_calls, raw, nlp, similarity,
                   intent_templates, prev>>

\* KnowledgeGraph.node_type(node)
NodeType(name) ==
    /\ call.op # "execute"
    /\ call' = [op |-> "node_type", name |-> name,
                result |-> node_type(nodes, node_attrs, name)]
    /\ UNCHANGED <<generator, inflight, nodes, node_attrs, edges, helper_calls, raw, nlp, similarity,
                   intent_templates, prev>>

AddRelationshipStep ==
    \E s \in NameInputs, d \in NameInputs, rel \in AddedRelationInputs :
        add_relationship(s, d, rel)

ExecuteStep == \E plan \in PlanInputs : Execute(plan)

NodeTypeStep == \E name \in NameInputs : NodeType(name)

Next == AddRelationshipStep \/ ExecuteStep \/ NodeTypeStep

Spec == Init /\ [][Next]_vars

----------------------------------------------------------------------------
(* The serving side: the interpreter and the executor answer questions *)

QueryCall == call.op \in {"interpret", "query"}

InitServing ==
    /\ \E r \in ServingSources :
        /\ raw = r
        /\ nodes = LoadedNodes(r)
        /\ node_attrs = LoadedAttrs(r)
        /\ edges = LoadedEdges(r)
    /\ helper_calls = 0
    /\ inflight = <<>>
    /\ GeneratorIdle
    /\ nlp \in Rulers(nodes)
    /\ similarity \in ModelStates
    /\ intent_templates = Catalog
    /\ prev = [op |-> "none"]
    /\ call = [op |-> "from_graphml"]

\* QueryInterpreter.interpret(query), called on its own
Interpret(query) ==
    \E out \in {interpret(nodes, node_attrs, nlp, intent_templates, similarity[query], query)} :
        /\ call' = [op |-> "interpret", question |-> query, error |-> out.error,
                    plan |-> out.plan, intent |-> out.intent, encoded |-> out.encoded,
                    result |-> <<>>]
        /\ prev' = IF QueryCall THEN call ELSE prev
        /\ UNCHANGED <<generator, inflight, nodes, node_attrs, edges, helper_calls, raw, nlp, similarity,
                       intent_templates>>

\* query_knowledge_graph(question) and the try block of main: interpret, then
\* execute the plan unless interpret raised
Query(query) ==
    \E out \in {interpret(nodes, node_attrs, nlp, intent_templates, similarity[query], query)} :
        /\ call' = [op |-> "query", question |-> query, error |-> out.error,
                    plan |-> out.plan, intent |-> out.intent, encoded |-> out.encoded,
                    result |-> IF out.error = "none"
                               THEN execute(nodes, edges, out.plan) ELSE <<>>]
        /\ intent_templates' =
               IF out.error = "none" /\ out.shared # "none"
               THEN [intent_templates EXCEPT ![out.shared] = ChainAfterExecute(@)]
               ELSE intent_templates
        /\ prev' = IF QueryCall THEN call ELSE prev
        /\ UNCHANGED <<generator, inflight, nodes, node_attrs, edges, helper_calls, raw, nlp, similarity>>

\* query_knowledge_graph(question) of enhanced_api: the facts dictionary; the
\* except clause turns any exception into success False, the plan {} (NoPlan)
\* and no results
query_knowledge_graph(out, results) ==
    IF out.error = "none"
    THEN [success |-> TRUE, error |-> "none", plan |-> out.plan, results |-> results]
    ELSE [success |-> FALSE, error |-> out.error, plan |-> NoPlan, results |-> <<>>]

\* mutation: a query without results is taken for a failed one
question_endpointEmptyFails(facts) ==
    IF ~facts.success \/ facts.results = <<>>
    THEN [status |-> 400, events |-> <<"query_knowledge_graph", "HTTPException">>]
    ELSE [status |-> 200, events |-> <<"query_knowledge_graph", "generate_llm_response",
                                       "QuestionResponse">>]

\* question_endpoint(request) after query_knowledge_graph: the HTTP status and
\* the calls made, in order
question_endpoint(facts) ==
    IF ~facts.success
    THEN [status |-> 400, events |-> <<"query_knowledge_graph", "HTTPException">>]
    ELSE [status |-> 200, events |-> <<"query_knowledge_graph", "generate_llm_response",
                                       "QuestionResponse">>]

\* POST /question
Question(query) ==
    \E out \in {interpret(nodes, node_attrs, nlp, intent_templates, similarity[query], query)} :
    \E facts \in {query_knowledge_graph(out, IF out.error = "none"
                                              THEN execute(nodes, edges, out.plan)
                                              ELSE <<>>)} :
        /\ call' = [op |-> "question", question |-> query, raised |-> out.error,
                    facts |-> facts, response |-> question_endpoint(facts)]
        /\ intent_templates' =
               IF out.error = "none" /\ out.shared # "none"
               THEN [intent_templates EXCEPT ![out.shared] = ChainAfterExecute(@)]
               ELSE intent_templates
        /\ UNCHANGED <<generator, inflight, nodes, node_attrs, edges, helper_calls, raw, nlp,
                       similarity, prev>>

\* QueryInterpreter._extract_entity(query), called on its own
Extract(query) ==
    /\ call' = [op |-> "_extract_entity", question |-> query,
                found |-> _extract_entity(nodes, nlp, query)]
    /\ UNCHANGED <<generator, inflight, nodes, node_attrs, edges, helper_calls, raw, nlp, similarity,
                   intent_templates, prev>>

InterpretStep == \E q \in Questions : Interpret(q)

QueryStep == \E q \in Questions : Query(q)

ExtractStep == \E q \in Questions : Extract(q)

QuestionStep == \E q \in Questions : Question(q)

NextServing == InterpretStep \/ QueryStep \/ ExtractStep \/ QuestionStep

SpecServing == InitServing /\ [][NextServing]_vars

----------------------------------------------------------------------------
(* Properties of GraphExecutor.execute, stated on the edge list itself *)

Executed == call.op = "execute"

\* the edge indices
EdgeIds == 1..Len(edges)

\* the far end and the near end of edge i when walked in the given direction
Far(i, rev) == IF rev THEN edges[i].src ELSE edges[i].dst
Near(i, rev) == IF rev THEN edges[i].dst ELSE edges[i].src

\* the endpoints reached from the set S over one edge carrying rel
Neighbours(S, rel, rev) ==
    {Far(i, rev) : i \in {j \in EdgeIds : edges[j].relation = rel /\ Near(j, rev) \in S}}

\* the set reached from S after the first k hops of chain
RECURSIVE Reached(_, _, _, _)
Reached(S, chain, k, rev) ==
    IF k = 0 THEN S
    ELSE Neighbours(Reached(S, chain, k - 1, rev), chain[k], rev)

\* the edge sequences that start at `start`, carry the first k relations of
\* chain in order and are connected end to end, every edge walked in
\* direction rev
RECURSIVE PathsOfLength(_, _, _, _)
PathsOfLength(start, chain, k, rev) ==
    IF k = 0 THEN {<<>>}
    ELSE UNION {{Append(p, i) :
                    i \in {j \in EdgeIds :
                            /\ edges[j].relation = chain[k]
                            /\ Near(j, rev) = IF p = <<>> THEN start
                                              ELSE Far(p[Len(p)], rev)}} :
                p \in PathsOfLength(start, chain, k - 1, rev)}

ChainPaths(start, chain, rev) == PathsOfLength(start, chain, Len(chain), rev)

PathEnd(p, rev) == Far(p[Len(p)], rev)

\* C1: a one-hop plan whose start kind is Power or Team returns the sources of
\* the incoming edges of the start entity that carry the hop's relation, each
\* as often as there are such edges; with any other start kind it returns the
\* targets of the outgoing edges that carry the relation.
C1_DirectionByStartKind ==
    (Executed /\ Len(call.plan.relation_chain) = 1) =>
        LET plan == call.plan
            rel == plan.relation_chain[1]
        IN  \A x \in Range(nodes) \cup Range(call.result) :
                Count(call.result, x) =
                    IF plan.start_type \in {"Power", "Team"}
                    THEN Cardinality({i \in EdgeIds : /\ edges[i].relation = rel
                                                      /\ edges[i].dst = plan.start_entity
                                                      /\ edges[i].src = x})
                    ELSE Cardinality({i \in EdgeIds : /\ edges[i].relation = rel
                                                      /\ edges[i].src = plan.start_entity
                                                      /\ edges[i].dst = x})

\* the plan (start P, kind Power, chain [POSSESSES_POWER]) has returned [W] on
\* the graph whose only POSSESSES_POWER edge is W -> P
C1_Witness ==
    /\ Executed
    /\ raw = MutantSource /\ helper_calls = 0
    /\ call.plan.start_entity = P /\ call.plan.start_type = "Power"
    /\ call.plan.relation_chain = <<"POSSESSES_POWER">>
    /\ call.result = <<W>>

\* C2: the entities a plan of N hops returns are exactly those reached by N
\* successive expansions, hop k following only the edges that carry the k-th
\* relation of the chain; edges with another label contribute nothing.
C2_SequentialHops ==
    Executed =>
        LET plan == call.plan
            rev == plan.start_type \in {"Power", "Team"}
        IN  Range(call.result) =
                Reached({plan.start_entity}, plan.relation_chain,
                        Len(plan.relation_chain), rev)

\* the plan (start W, kind Character, chain [HAS_MUTATION, CONFERS]) has
\* returned [P] on W -HAS_MUTATION-> G -CONFERS-> P, W -POSSESSES_POWER-> P
C2_Witness ==
    /\ Executed
    /\ raw = MutantSource /\ helper_calls = 0
    /\ call.plan.start_entity = W /\ call.plan.start_type = "Character"
    /\ call.plan.relation_chain = <<"HAS_MUTATION", "CONFERS">>
    /\ call.result = <<P>>

\* C5: execute returns a sequence of entities for every well-formed plan, and
\* the empty sequence as soon as one hop of the chain matches no edge.
WellFormed(plan) ==
    plan.start_entity \in Range(nodes) /\ plan.relation_chain # <<>>

C5_EmptyResultNoError ==
    (Executed /\ WellFormed(call.plan)) =>
        LET plan == call.plan
            rev == plan.start_type \in {"Power", "Team"}
        IN  /\ call.result \in Seq(Range(nodes))
            /\ (\E k \in 1..Len(plan.relation_chain) :
                    Reached({plan.start_entity}, plan.relation_chain, k, rev) = {})
                => call.result = <<>>

\* a well-formed two-hop plan whose second hop matches no edge (the first hop
\* does) has returned the empty sequence
C5_Witness ==
    /\ Executed /\ WellFormed(call.plan)
    /\ Len(call.plan.relation_chain) = 2
    /\ Reached({call.plan.start_entity}, call.plan.relation_chain, 1,
               call.plan.start_type \in {"Power", "Team"}) # {}
    /\ call.result = <<>>

\* C8: every entity a plan returns is the end of a path all of whose edges are
\* walked in the one direction fixed by the plan's start kind (incoming for
\* Power and Team, outgoing otherwise), whatever the kinds of the nodes in
\* between; and every such path ends in the result.
C8_DirectionFixedPerPlan ==
    Executed =>
        LET plan == call.plan
            rev == plan.start_type \in {"Power", "Team"}
        IN  Range(call.result) =
                {PathEnd(p, rev) : p \in ChainPaths(plan.start_entity, plan.relation_chain, rev)}

\* a two-hop plan started at the Power P has followed incoming edges on both
\* hops, through the Gene G, and returned [W]
C8_Witness ==
    /\ Executed
    /\ raw = MutantSource /\ helper_calls = 0
    /\ call.plan.start_entity = P /\ call.plan.start_type = "Power"
    /\ call.plan.relation_chain = <<"CONFERS", "HAS_MUTATION">>
    /\ node_attrs[G].label = "Gene"
    /\ call.result = <<W>>

\* C9: an entity appears in the result as many times as there are distinct
\* edge paths from the start entity that follow the chain in the plan's
\* direction and end at it, parallel edges counted separately.
C9_NoDeduplication ==
    Executed =>
        LET plan == call.plan
            rev == plan.start_type \in {"Power", "Team"}
            paths == ChainPaths(plan.start_entity, plan.relation_chain, rev)
        IN  \A x \in Range(nodes) \cup Range(call.result) :
                Count(call.result, x) = Cardinality({p \in paths : PathEnd(p, rev) = x})

\* P has been returned twice: it is reached over each of the two parallel
\* W -HAS_MUTATION-> G edges
C9_Witness ==
    /\ Executed
    /\ call.plan.start_entity = W
    /\ call.plan.relation_chain = <<"HAS_MUTATION", "CONFERS">>
    /\ Count(call.result, P) = 2
    /\ Cardinality({i \in EdgeIds : edges[i].src = W /\ edges[i].dst = G
                                     /\ edges[i].relation = "HAS_MUTATION"}) = 2

----------------------------------------------------------------------------
(* The executor on plans that carry any target_type: a plan is executed, then
   the same plan with another target_type *)

TargetTypeInputs == Kinds \cup {Unknown}

TargetPlanInputs ==
    {[start_entity |-> n, start_type |-> t, relation_chain |-> c, target_type |-> g] :
        n \in {CharW, GeneK, PowerP, TeamS, PlainZ}, t \in StartTypeInputs,
        c \in SeqsUpTo(Relations, MaxChain) \ {<<>>}, g \in TargetTypeInputs}

InitTarget ==
    /\ raw = ServingSource
    /\ nodes = LoadedNodes(raw)
    /\ node_attrs = LoadedAttrs(raw)
    /\ edges = LoadedEdges(raw)
    /\ helper_calls = 0
    /\ inflight = <<>>
    /\ GeneratorIdle
    /\ nlp = NoRuler
    /\ similarity = PowerFirst
    /\ intent_templates = Catalog
    /\ prev = [op |-> "none"]
    /\ call = [op |-> "from_graphml"]

\* GraphExecutor.execute(plan) on the plan of the last call with its
\* target_type replaced
ExecuteVariant(target) ==
    /\ call.op = "execute"
    /\ prev.op = "none"
    /\ target # call.plan.target_type
    /\ \E plan \in {[call.plan EXCEPT !.target_type = target]} :
          call' = [op |-> "execute", plan |-> plan, result |-> execute(nodes, edges, plan)]
    /\ prev' = call
    /\ UNCHANGED <<generator, inflight, nodes, node_attrs, edges, helper_calls, raw, nlp, similarity,
                   intent_templates>>

TargetPlanStep == \E plan \in TargetPlanInputs : Execute(plan)

ExecuteVariantStep == \E target \in TargetTypeInputs : ExecuteVariant(target)

NextTarget == TargetPlanStep \/ ExecuteVariantStep

SpecTarget == InitTarget /\ [][NextTarget]_vars

\* C14: two plans that differ in their target_type only get the same result
\* sequence on the same graph, and the end of every path that follows the
\* chain is in the result, whatever its kind and whatever the target_type.
C14_TargetTypeIgnored ==
    Executed =>
        /\ (prev.op = "execute"
              /\ [prev.plan EXCEPT !.target_type = call.plan.target_type] = call.plan)
              => prev.result = call.result
        /\ LET rev == call.plan.start_type \in {"Power", "Team"}
           IN  \A p \in ChainPaths(call.plan.start_entity, call.plan.relation_chain, rev) :
                   PathEnd(p, rev) \in Range(call.result)

\* the plan (start W, chain [HAS_MUTATION, CONFERS]) has returned the Power P
\* with the target_type Team, and again with the target_type Gene
C14_Witness ==
    /\ Executed /\ prev.op = "execute"
    /\ call.plan.start_entity = CharW /\ call.plan.start_type = "Character"
    /\ call.plan.relation_chain = <<"HAS_MUTATION", "CONFERS">>
    /\ prev.plan.target_type = "Team" /\ call.plan.target_type = "Gene"
    /\ node_attrs[PowerP].label = "Power"
    /\ prev.result = <<PowerP>> /\ call.result = <<PowerP>>

----------------------------------------------------------------------------
(* KnowledgeGraph.node_type *)

\* C18: node_type returns the kind of the node, or Unknown when the node has
\* none, and raises for no name at all.
C18_NodeTypeNeverRaises ==
    call.op = "node_type" =>
        /\ call.result # KeyError
        /\ call.name \in Range(nodes) =>
              call.result = IF node_attrs[call.name].label = Absent THEN Unknown
                            ELSE node_attrs[call.name].label

----------------------------------------------------------------------------
(* Properties of QueryInterpreter.interpret and of the interpret-execute flow *)

Answered == QueryCall /\ call.error = "none"

\* the edges into n that carry rel
IncomingIds(n, rel) == {i \in EdgeIds : edges[i].dst = n /\ edges[i].relation = rel}

\* C3: whatever the question says, an entity whose kind is Gene gets the chain
\* [CONFERS], a Power [POSSESSES_POWER] and a Team [MEMBER_OF], the sentence
\* model is not consulted for any of the three, and the Power and Team plans
\* are executed over incoming edges: the result holds the sources of the
\* edges into the entity that carry the relation.
C3_ForcedDispatch ==
    Answered =>
        LET e == call.plan.start_entity
            kind == node_attrs[e].label
            forced == CASE kind = "Gene" -> <<"CONFERS">>
                        [] kind = "Power" -> <<"POSSESSES_POWER">>
                        [] kind = "Team" -> <<"MEMBER_OF">>
                        [] OTHER -> <<>>
        IN  kind \in {"Gene", "Power", "Team"} =>
                /\ call.plan.relation_chain = forced
                /\ ~call.encoded
                /\ (call.op = "query" /\ kind \in {"Power", "Team"}) =>
                      \A x \in Range(nodes) \cup Range(call.result) :
                          Count(call.result, x) =
                              Cardinality({i \in IncomingIds(e, forced[1]) : edges[i].src = x})

\* the question "p gene" names the Power P and contains the word gene: the chain
\* is [POSSESSES_POWER] and the two holders of P are returned
C3_Witness ==
    /\ Answered /\ call.op = "query"
    /\ call.question = <<"p", " ", "g", "e", "n", "e">>
    /\ call.plan.start_entity = PowerP /\ node_attrs[PowerP].label = "Power"
    /\ call.plan.relation_chain = <<"POSSESSES_POWER">>
    /\ call.result = <<CharW, PlainZ>>

\* a node is located in the question: a span of the recognizer names it, or
\* the substring test holds for it
Located(query) ==
    \/ nlp.available /\ \E i \in 1..Len(nlp.ents[query]) : nlp.ents[query][i] \in Range(nodes)
    \/ \E n \in Range(nodes) : Matches(n, lower(query))

\* C4: interpret raises the no-entity error exactly when no entity is located
\* in the question; it raises nothing else, and when an entity is located it
\* returns a plan that starts at a node of the graph.
C4_OnlyNoEntityError ==
    QueryCall =>
        /\ call.error \in {"none", "ValueError"}
        /\ call.error = "ValueError" <=> ~Located(call.question)
        /\ call.error = "none" =>
              /\ call.plan.start_entity \in Range(nodes)
              /\ call.plan.relation_chain # <<>>

\* the question "?" contains no entity name and interpret has raised
C4_Witness ==
    /\ QueryCall
    /\ call.question = <<"?">>
    /\ \A n \in Range(nodes) : ~Contains(lower(n), lower(call.question))
    /\ call.error = "ValueError"

\* C10: with the graph, the recognizer and the scores as they are, a question
\* asked twice gets the same plan (or the same error) both times, and a plan
\* executed twice gets the same result sequence.
C10_Determinism ==
    (QueryCall /\ prev.op \in {"interpret", "query"}) =>
        /\ prev.question = call.question =>
              prev.error = call.error /\ prev.plan = call.plan
        /\ (prev.op = "query" /\ call.op = "query" /\ prev.error = "none"
              /\ call.error = "none" /\ prev.plan = call.plan) =>
              prev.result = call.result

\* the same question has been answered twice through the sentence model, with
\* a result of more than one entity
C10_Witness ==
    /\ QueryCall /\ prev.op = "query" /\ call.op = "query"
    /\ prev.question = call.question
    /\ call.error = "none" /\ call.encoded
    /\ Len(call.result) > 1
    /\ prev.result = call.result

\* the question holds one of the words gene, mutation, mutant, in any letter case
HasGeneWord(query) ==
    \E word \in GeneWords : \E i \in 1..Len(query) :
        /\ i + Len(word) - 1 <= Len(query)
        /\ \A k \in 1..Len(word) : LowerChar(query[i + k - 1]) = word[k]

\* the plan of the last call came from the semantic fallback: the question was
\* encoded and the chain is the one the catalog holds for the chosen label
BySemanticFallback ==
    /\ call.encoded
    /\ call.intent \in DOMAIN intent_templates
    /\ call.plan.relation_chain = intent_templates[call.intent]

\* C11: for a Character, a question that holds gene, mutation or mutant in any
\* letter case gets the intent character_gene and the chain [HAS_MUTATION]
\* without the sentence model; any other question about a Character, and
\* every question about an entity of kind Unknown, gets its chain from the
\* semantic fallback.
C11_CharacterDispatch ==
    Answered =>
        LET kind == call.plan.start_type
        IN  /\ (kind = "Character" /\ HasGeneWord(call.question)) =>
                  /\ call.intent = "character_gene"
                  /\ call.plan.relation_chain = <<"HAS_MUTATION">>
                  /\ ~call.encoded
            /\ (kind = "Character" /\ ~HasGeneWord(call.question)) => BySemanticFallback
            /\ kind = Unknown => BySemanticFallback

\* the question "Z gene" names the entity Z, which has no kind, and holds the
\* word gene: the chain is the one of the best-scoring template
C11_Witness ==
    /\ Answered
    /\ call.question = <<"Z", " ", "g", "e", "n", "e">>
    /\ call.plan.start_entity = PlainZ /\ call.plan.start_type = Unknown
    /\ node_attrs[PlainZ].label = Absent
    /\ call.encoded /\ call.intent = "direct_power"
    /\ call.plan.relation_chain = <<"POSSESSES_POWER">>

\* the place of a label in the catalog
CatalogPlace(label) == CHOOSE i \in 1..Len(CatalogOrder) : CatalogOrder[i] = label

\* the five chains of the catalog, as written in the constructor
CatalogChain(label) ==
    CASE label = "direct_power" -> <<"POSSESSES_POWER">>
      [] label = "mutation_power" -> <<"HAS_MUTATION", "CONFERS">>
      [] label = "team" -> <<"MEMBER_OF">>
      [] label = "gene_power" -> <<"CONFERS">>
      [] label = "character_gene" -> <<"HAS_MUTATION">>

\* C12: when the semantic fallback is used, the label selected is a catalog
\* label whose score for the question is the highest, no label earlier in the
\* catalog order has that score, and the chain returned is the chain of that
\* label: one of the five catalog chains.
C12_SemanticFallback ==
    (Answered /\ call.encoded) =>
        LET scores == similarity[call.question]
        IN  /\ call.intent \in Range(CatalogOrder)
            /\ \A j \in 1..Len(CatalogOrder) : scores[j] <= scores[CatalogPlace(call.intent)]
            /\ \A j \in 1..(CatalogPlace(call.intent) - 1) :
                  scores[j] < scores[CatalogPlace(call.intent)]
            /\ call.plan.relation_chain = CatalogChain(call.intent)

\* mutation_power and team score highest together and mutation_power, the
\* earlier of the two, has been selected
C12_Witness ==
    /\ Answered /\ call.encoded
    /\ similarity[call.question][2] = similarity[call.question][3]
    /\ similarity[call.question][1] < similarity[call.question][2]
    /\ call.intent = "mutation_power"
    /\ call.plan.relation_chain = <<"HAS_MUTATION", "CONFERS">>

\* C13: the target_type of a plan is fixed by its intent label: Power for
\* direct_power, mutation_power and gene_power (the labels that end with
\* "power"), Team for team, Gene for character_gene, Character for
\* power_character and team_character, Unknown for any other label.
C13_TargetTypeFromIntent ==
    Answered =>
        call.plan.target_type =
            CASE call.intent \in {"direct_power", "mutation_power", "gene_power"} -> "Power"
              [] call.intent = "team" -> "Team"
              [] call.intent = "character_gene" -> "Gene"
              [] call.intent \in {"power_character", "team_character"} -> "Character"
              [] OTHER -> Unknown

\* a question about the Power P has got the intent power_character, a label
\* that holds the word power without ending with it, and the target Character
C13_Witness ==
    /\ Answered
    /\ call.plan.start_entity = PowerP /\ call.plan.start_type = "Power"
    /\ call.intent = "power_character"
    /\ call.plan.target_type = "Character"

\* word stands in text at some position
Occurs(word, text) ==
    \E i \in 0..(Len(text) - Len(word)) : \A k \in 1..Len(word) : text[i + k] = word[k]

\* the lower-cased name and its two dash variants
DashVariants(name) ==
    {lower(name), replace(lower(name), NonBreakingHyphen, Hyphen),
     replace(lower(name), Hyphen, NonBreakingHyphen)}

\* C15: when a recognizer is configured and proposes spans that are names of
\* the graph, the first such span is returned; otherwise (no recognizer, or
\* no span accepted) the first node, in the order of the store, whose
\* lower-cased name or a dash variant of it stands in the lower-cased
\* question is returned; when there is no such node either the result is
\* None.
C15_RecognitionOrder ==
    call.op = "_extract_entity" =>
        LET q == call.question
            spans == IF nlp.available THEN nlp.ents[q] ELSE <<>>
            accepted == {i \in 1..Len(spans) : \E j \in 1..Len(nodes) : nodes[j] = spans[i]}
            hits == {j \in 1..Len(nodes) :
                        \E v \in DashVariants(nodes[j]) : Occurs(v, lower(q))}
        IN  /\ accepted # {} => call.found = spans[Min(accepted)]
            /\ (accepted = {} /\ hits # {}) => call.found = nodes[Min(hits)]
            /\ (accepted = {} /\ hits = {}) => call.found = None

\* the recognizer has proposed the span P before the span W and P has been
\* returned, although W stands before P in the store and in the question too
C15_Witness ==
    /\ call.op = "_extract_entity"
    /\ call.question = <<"P", " ", "W">>
    /\ nlp.available /\ nlp.ents[call.question] = <<PowerP, CharW>>
    /\ nodes[1] = CharW
    /\ call.found = PowerP

\* the edges of the store that carry a relation other than the sentinel
WithoutSentinel == SelectSeq(edges, LAMBDA e : e.relation # RELATED_TO)

\* C17: no plan interpret returns has RELATED_TO in its relation_chain, and
\* the result of executing the plan holds every entity exactly as often as it
\* would if the edges labelled RELATED_TO were not in the graph.
C17_SentinelNeverFollowed ==
    Answered =>
        /\ \A k \in 1..Len(call.plan.relation_chain) : call.plan.relation_chain[k] # RELATED_TO
        /\ call.op = "query" =>
              \A x \in Range(nodes) \cup Range(call.result) :
                  Count(call.result, x) =
                      Count(execute(nodes, WithoutSentinel, call.plan), x)

\* the Team S has the incoming edges W -MEMBER_OF-> S and Z -RELATED_TO-> S:
\* the question about S has returned W alone
C17_Witness ==
    /\ Answered /\ call.op = "query"
    /\ call.plan.start_entity = TeamS /\ call.plan.start_type = "Team"
    /\ \E i \in EdgeIds : /\ edges[i].src = PlainZ /\ edges[i].dst = TeamS
                          /\ edges[i].relation = RELATED_TO
    /\ call.result = <<CharW>>

\* C21: every plan interpret returns starts at a node of the graph, carries
\* as start_type the label of that node (Unknown when it has none), and has a
\* relation_chain of one or two relations, each one of POSSESSES_POWER,
\* HAS_MUTATION, CONFERS, MEMBER_OF.
C21_PlanWellFormed ==
    Answered =>
        LET plan == call.plan
        IN  /\ \E j \in 1..Len(nodes) : nodes[j] = plan.start_entity
            /\ plan.start_type = IF node_attrs[plan.start_entity].label = Absent
                                 THEN Unknown
                                 ELSE node_attrs[plan.start_entity].label
            /\ Len(plan.relation_chain) \in {1, 2}
            /\ \A k \in 1..Len(plan.relation_chain) : plan.relation_chain[k] \in Relations

\* a question about the Character W has got a plan with the start_type
\* Character and the two-hop chain of mutation_power
C21_Witness ==
    /\ Answered
    /\ call.plan.start_entity = CharW /\ call.plan.start_type = "Character"
    /\ node_attrs[CharW].label = "Character"
    /\ call.plan.relation_chain = <<"HAS_MUTATION", "CONFERS">>

\* C25: the target_type of a plan interpret returns is never Unknown: it is
\* one of Power, Team, Gene and Character, whatever the question, the kind of
\* the start entity and the scores of the templates.
C25_TargetTypeKnown ==
    Answered => /\ call.plan.target_type # Unknown
                /\ call.plan.target_type \in Kinds

\* a question about Z, an entity of kind Unknown, has got a catalog label
\* from the sentence model and the target_type Power
C25_Witness ==
    /\ Answered
    /\ call.plan.start_entity = PlainZ /\ call.plan.start_type = Unknown
    /\ call.encoded
    /\ call.plan.target_type = "Power"

\* the place of the event e in the sequence of calls, 0 when it is not there
EventPlace(events, e) ==
    IF \E i \in 1..Len(events) : events[i] = e
    THEN CHOOSE i \in 1..Len(events) : events[i] = e
    ELSE 0

\* C23: POST /question answers 400 exactly when interpret or execute raised;
\* query_knowledge_graph then reports success False with the empty plan and
\* no results; generate_llm_response is called only when the query
\* succeeded, and after it; a successful query without results is answered
\* with 200 after generate_llm_response has been called.
C23_QuestionFlow ==
    call.op = "question" =>
        LET facts == call.facts
            events == call.response.events
            llm == EventPlace(events, "generate_llm_response")
        IN  /\ call.response.status = 400 <=> call.raised # "none"
            /\ facts.success <=> call.raised = "none"
            /\ ~facts.success => facts.plan = NoPlan /\ facts.results = <<>>
            /\ llm # 0 => facts.success /\ EventPlace(events, "query_knowledge_graph") \in 1..(llm - 1)
            /\ (facts.success /\ facts.results = <<>>) =>
                  call.response.status = 200 /\ llm # 0

\* the question "Z?" has been answered through mutation_power, Z has no
\* mutation, and the empty result has gone on to generate_llm_response
C23_Witness ==
    /\ call.op = "question"
    /\ call.question = <<"Z", "?">>
    /\ call.facts.success /\ call.facts.results = <<>>
    /\ call.facts.plan.relation_chain = <<"HAS_MUTATION", "CONFERS">>
    /\ call.response.status = 200
    /\ call.response.events[2] = "generate_llm_response"

----------------------------------------------------------------------------
(* A graph that changes after the interpreter was built: the construction
   helpers and G.remove_node act on the store, the recognizer keeps the
   patterns of _build_spacy_ruler *)

MaxGraphChanges == 2

BuildNames == {CharW, PlainZ}

BuildQuestions ==
    { <<"W">>, <<"Z", "?">>, <<"W", " ", "Z">>, <<"?">> }

\* spaCy missing, or the ruler _build_spacy_ruler makes of the nodes ns
BuiltRulers(ns) ==
    { [available |-> FALSE, ents |-> [q \in BuildQuestions |-> <<>>]],
      [available |-> TRUE, ents |-> [q \in BuildQuestions |-> Occurrences(ns, q)]] }

\* KnowledgeGraph() or from_graphml, then QueryInterpreter(kg)
InitBuild ==
    /\ \E r \in {EmptySource, ReorderedSource} :
        /\ raw = r
        /\ nodes = LoadedNodes(r)
        /\ node_attrs = LoadedAttrs(r)
        /\ edges = LoadedEdges(r)
    /\ helper_calls = 0
    /\ inflight = <<>>
    /\ GeneratorIdle
    /\ nlp \in BuiltRulers(nodes)
    /\ similarity = PowerFirst
    /\ intent_templates = Catalog
    /\ prev = [op |-> "none"]
    /\ call = [op |-> "QueryInterpreter"]

\* KnowledgeGraph.add_character(name): self.G.add_node(name, type="Character")
add_character(name) ==
    /\ helper_calls < MaxGraphChanges
    /\ nodes' = AddNodeNodes(nodes, name)
    /\ node_attrs' = AddNodeAttrs(node_attrs, name, [type |-> "Character"])
    /\ helper_calls' = helper_calls + 1
    /\ call' = [op |-> "add_character", name |-> name, kind |-> "Character"]
    /\ UNCHANGED <<generator, inflight, edges, raw, nlp, similarity, intent_templates, prev>>

\* KnowledgeGraph.add_team(name): self.G.add_node(name, type="Team")
add_team(name) ==
    /\ helper_calls < MaxGraphChanges
    /\ nodes' = AddNodeNodes(nodes, name)
    /\ node_attrs' = AddNodeAttrs(node_attrs, name, [type |-> "Team"])
    /\ helper_calls' = helper_calls + 1
    /\ call' = [op |-> "add_team", name |-> name, kind |-> "Team"]
    /\ UNCHANGED <<generator, inflight, edges, raw, nlp, similarity, intent_templates, prev>>

\* KnowledgeGraph.add_gene(name): self.G.add_node(name, type="Gene")
add_gene(name) ==
    /\ helper_calls < MaxGraphChanges
    /\ nodes' = AddNodeNodes(nodes, name)
    /\ node_attrs' = AddNodeAttrs(node_attrs, name, [type |-> "Gene"])
    /\ helper_calls' = helper_calls + 1
    /\ call' = [op |-> "add_gene", name |-> name, kind |-> "Gene"]
    /\ UNCHANGED <<generator, inflight, edges, raw, nlp, similarity, intent_templates, prev>>

\* KnowledgeGraph.add_power(name): self.G.add_node(name, type="Power")
add_power(name) ==
    /\ helper_calls < MaxGraphChanges
    /\ nodes' = AddNodeNodes(nodes, name)
    /\ node_attrs' = AddNodeAttrs(node_attrs, name, [type |-> "Power"])
    /\ helper_calls' = helper_calls + 1
    /\ call' = [op |-> "add_power", name |-> name, kind |-> "Power"]
    /\ UNCHANGED <<generator, inflight, edges, raw, nlp, similarity, intent_templates, prev>>

\* kg.G.remove_node(name)
remove_node(name) ==
    /\ helper_calls < MaxGraphChanges
    /\ name \in Range(nodes)
    /\ nodes' = RemoveNodeNodes(nodes, name)
    /\ node_attrs' = RemoveNodeAttrs(node_attrs, name)
    /\ edges' = RemoveNodeEdges(edges, name)
    /\ helper_calls' = helper_calls + 1
    /\ call' = [op |-> "remove_node", name |-> name]
    /\ UNCHANGED <<generator, inflight, raw, nlp, similarity, intent_templates, prev>>

\* KnowledgeGraph.node_type(name) on the changed graph
BuildNodeType(name) ==
    /\ call' = [op |-> "node_type", name |-> name,
                result |-> node_type(nodes, node_attrs, name)]
    /\ UNCHANGED <<generator, inflight, nodes, node_attrs, edges, helper_calls, raw, nlp, similarity,
                   intent_templates, prev>>

AddCharacterStep == \E name \in BuildNames : add_character(name)

AddTeamStep == \E name \in BuildNames : add_team(name)

AddGeneStep == \E name \in BuildNames : add_gene(name)

AddPowerStep == \E name \in BuildNames : add_power(name)

RemoveNodeStep == \E name \in BuildNames : remove_node(name)

BuildNodeTypeStep == \E name \in BuildNames : BuildNodeType(name)

BuildExtractStep == \E q \in BuildQuestions : Extract(q)

NextBuild ==
    \/ AddCharacterStep \/ AddTeamStep \/ AddGeneStep \/ AddPowerStep
    \/ RemoveNodeStep \/ BuildNodeTypeStep \/ BuildExtractStep

SpecBuild == InitBuild /\ [][NextBuild]_vars

\* C22: a node made with a construction helper has the helper's kind:
\* node_type is Character after add_character, Team after add_team, Gene
\* after add_gene, Power after add_power.
C22_HelperGivesKind ==
    call.op \in {"add_character", "add_team", "add_gene", "add_power"} =>
        node_type(nodes, node_attrs, call.name) = call.kind

\* the nodes the recognizer was built on
BuiltNodes == LoadedNodes(raw)

\* C24: _extract_entity returns None or a node the graph has at the time of
\* the call, whatever was added or removed since the interpreter was built:
\* a span of the recognizer that names a removed node is never returned, and
\* when no span is accepted the first node whose name stands in the
\* question is returned, a node added after construction included.
C24_LiveNodesOnly ==
    call.op = "_extract_entity" =>
        LET q == call.question
            spans == IF nlp.available THEN nlp.ents[q] ELSE <<>>
            live == {i \in 1..Len(spans) : \E j \in 1..Len(nodes) : nodes[j] = spans[i]}
            hits == {j \in 1..Len(nodes) :
                        \E v \in DashVariants(nodes[j]) : Occurs(v, lower(q))}
        IN  /\ call.found = None \/ \E j \in 1..Len(nodes) : nodes[j] = call.found
            /\ \A i \in 1..Len(spans) : i \notin live => call.found # spans[i]
            /\ (live = {} /\ hits # {}) => call.found = nodes[Min(hits)]

\* the recognizer was built with W and without Z; W has been removed and Z
\* added; for "W Z" the stale span W was dropped and Z came from the
\* substring loop
C24_Witness ==
    /\ call.op = "_extract_entity"
    /\ call.question = <<"W", " ", "Z">>
    /\ nlp.available /\ nlp.ents[call.question] = <<CharW>>
    /\ \E i \in 1..Len(BuiltNodes) : BuiltNodes[i] = CharW
    /\ \A i \in 1..Len(BuiltNodes) : BuiltNodes[i] # PlainZ
    /\ \A j \in 1..Len(nodes) : nodes[j] # CharW
    /\ call.found = PlainZ

----------------------------------------------------------------------------
(* Entity recognition by substring: names with dashes, questions that write
   them with either dash and in any letter case *)

NameChars == {"A", "b", Hyphen, NonBreakingHyphen}

EntityNames == UNION {[1..k -> NameChars] : k \in 1..MaxNameLen}

Dashed(name) == \E i \in 1..Len(name) : name[i] \in {Hyphen, NonBreakingHyphen}

\* other vocabulary entries that stand before or after the entity asked for
OtherNames == {<<"A">>, <<Hyphen>>, <<"b", NonBreakingHyphen>>, <<"b", "b">>}

Vocabularies(e) == {<<e>>} \cup UNION {{<<d, e>>, <<e, d>>} : d \in OtherNames \ {e}}

\* a source graph that declares the names of v as Character nodes
NodesOnly(v) ==
    [directed |-> TRUE, nodes |-> [i \in 1..Len(v) |-> Node(v[i], "Character")],
     edges |-> <<>>]

UpperOf ==
    [c \in {LowerCase[i] : i \in 1..26} |-> UpperCase[CHOOSE i \in 1..26 : LowerCase[i] = c]]

\* s.upper()
upper(s) == [i \in 1..Len(s) |-> IF s[i] \in DOMAIN UpperOf THEN UpperOf[s[i]] ELSE s[i]]

\* the name written with ASCII hyphens, and with U+2011 throughout
WithHyphens(name) == replace(name, NonBreakingHyphen, Hyphen)
WithNonBreaking(name) == replace(name, Hyphen, NonBreakingHyphen)

Casings(s) == {s, lower(s), upper(s)}

Margins == {<<>>, <<" ">>, <<"b">>}

\* the questions that mention the entity e: its name with either dash, in
\* three letter cases, with text before and after
QuestionsAbout(e) ==
    {pre \o w \o post :
        w \in Casings(WithHyphens(e)) \cup Casings(WithNonBreaking(e)),
        pre \in Margins, post \in Margins}

InitRecognize ==
    /\ \E e \in {n \in EntityNames : Dashed(n)} : \E v \in Vocabularies(e) :
        /\ raw = NodesOnly(v)
        /\ nodes = LoadedNodes(raw)
        /\ node_attrs = LoadedAttrs(raw)
        /\ edges = LoadedEdges(raw)
    /\ helper_calls = 0
    /\ inflight = <<>>
    /\ GeneratorIdle
    /\ nlp = NoRuler
    /\ similarity = PowerFirst
    /\ intent_templates = Catalog
    /\ prev = [op |-> "none"]
    /\ call = [op |-> "from_graphml"]

\* QueryInterpreter._extract_entity(query) without spaCy, for a query that
\* mentions the node e
Recognize(e, query) ==
    /\ call.op = "from_graphml"
    /\ call' = [op |-> "_extract_entity", question |-> query, about |-> e,
                found |-> _extract_entity(nodes, nlp, query)]
    /\ UNCHANGED <<generator, inflight, nodes, node_attrs, edges, helper_calls, raw, nlp, similarity,
                   intent_templates, prev>>

RecognizeStep ==
    \E e \in {n \in Range(nodes) : Dashed(n)} : \E q \in QuestionsAbout(e) : Recognize(e, q)

NextRecognize == RecognizeStep

SpecRecognize == InitRecognize /\ [][NextRecognize]_vars

\* the place of the name n in G.nodes
Place(n) == CHOOSE i \in 1..Len(nodes) : nodes[i] = n

----------------------------------------------------------------------------
(* Loading: from_graphml on source graphs whose edge stores its relation
   under any of the four attribute names, with any GraphML value *)

AttrValueInputs == {Absent, IntZero, BoolFalse, "HAS_MUTATION", "knows"}

EdgeAttrInputs ==
    [relation : AttrValueInputs, label : AttrValueInputs,
     type : AttrValueInputs, name : AttrValueInputs]

\* one edge from the Character W to the Gene G, or a self-loop of W, listed
\* once or twice (parallel edges), in a directed or an undirected graph
LoadSources ==
    {[directed |-> dir,
      nodes |-> <<Node(W, "Character"), Node(G, "Gene")>>,
      edges |-> [k \in 1..n |-> [src |-> W, dst |-> d, attrs |-> a]]] :
        dir \in BOOLEAN, d \in {W, G}, n \in 1..2, a \in EdgeAttrInputs}

InitLoad ==
    /\ raw \in LoadSources
    /\ nodes = <<>>
    /\ node_attrs = <<>>
    /\ edges = <<>>
    /\ helper_calls = 0
    /\ inflight = <<>>
    /\ GeneratorIdle
    /\ nlp = NoRuler
    /\ similarity = PowerFirst
    /\ intent_templates = Catalog
    /\ prev = [op |-> "none"]
    /\ call = [op |-> "new"]

\* KnowledgeGraph.from_graphml(path), raw being what read_graphml returns
FromGraphml ==
    /\ call.op = "new"
    /\ nodes' = LoadedNodes(raw)
    /\ node_attrs' = LoadedAttrs(raw)
    /\ edges' = LoadedEdges(raw)
    /\ call' = [op |-> "from_graphml"]
    /\ UNCHANGED <<generator, inflight, helper_calls, raw, nlp, similarity, intent_templates, prev>>

NextLoad == FromGraphml

SpecLoad == InitLoad /\ [][NextLoad]_vars

Loaded == call.op = "from_graphml" /\ edges # <<>>

AttrOrder == <<"relation", "label", "type", "name">>

\* the value of the first of the four attributes that is there at all
FirstPresent(attrs) ==
    LET there == {k \in 1..4 : attrs[AttrOrder[k]] # Absent}
    IN  IF there = {} THEN RELATED_TO ELSE attrs[AttrOrder[Min(there)]]

\* the value of the first of the four attributes that is there with a value
\* Python takes for true (not the number 0, not false, not the empty string)
FirstUsable(attrs) ==
    LET usable == {k \in 1..4 : attrs[AttrOrder[k]] \notin {Absent, IntZero, BoolFalse, ""}}
    IN  IF usable = {} THEN RELATED_TO ELSE attrs[AttrOrder[Min(usable)]]

\* C7 as stated: every loaded edge carries the value of the first attribute
\* present on its source edge in the order relation, label, type, name, and
\* RELATED_TO only when none of the four is present.
C7_FirstPresentAttribute ==
    Loaded => \A i \in 1..Len(edges) : edges[i].relation = FirstPresent(raw.edges[1].attrs)

\* C7 amended: every loaded edge carries the value of the first attribute, in
\* the order relation, label, type, name, that is present with a value Python
\* treats as true; RELATED_TO is assigned when none of the four has such a
\* value. An edge whose relation is stored only under `type`, as a non-empty
\* string, gets that value.
C7_FirstUsableAttribute ==
    Loaded => \A i \in 1..Len(edges) : edges[i].relation = FirstUsable(raw.edges[1].attrs)

\* an edge that stores its relation only under `type` has been loaded with it
C7_Witness ==
    /\ Loaded
    /\ raw.edges[1].attrs = [relation |-> Absent, label |-> Absent,
                             type |-> "HAS_MUTATION", name |-> Absent]
    /\ edges[1].relation = "HAS_MUTATION"

\* C16: after a load every edge of the store carries one of the four known
\* relations or the sentinel RELATED_TO, whatever the source graph holds.
C16_KnownRelationsOnly ==
    Loaded => \A i \in 1..Len(edges) : edges[i].relation \in Relations \cup {RELATED_TO}

\* the stored edges from s to d that carry r
StoredEdges(s, d, r) ==
    {i \in 1..Len(edges) : edges[i] = [src |-> s, dst |-> d, relation |-> r]}

\* the source edges listed from s to d whose attributes resolve to r
SourceEdges(s, d, r) ==
    {k \in 1..Len(raw.edges) : /\ raw.edges[k].src = s /\ raw.edges[k].dst = d
                               /\ FirstUsable(raw.edges[k].attrs) = r}

\* C19: a directed source graph is stored edge for edge, with the endpoints,
\* the direction and the resolved relation of each source edge; for an
\* undirected source graph every source edge between u and v is stored as
\* u->v and as v->u, both with the relation resolved from that edge, and
\* nothing else is stored.
C19_UndirectedMirrored ==
    Loaded =>
        /\ raw.directed =>
              \A s \in Range(nodes), d \in Range(nodes) :
                  \A r \in {edges[i].relation : i \in 1..Len(edges)} \cup
                            {FirstUsable(raw.edges[k].attrs) : k \in 1..Len(raw.edges)} :
                      Cardinality(StoredEdges(s, d, r)) = Cardinality(SourceEdges(s, d, r))
        /\ ~raw.directed =>
              /\ \A k \in 1..Len(raw.edges) :
                    LET e == raw.edges[k]
                        r == FirstUsable(e.attrs)
                    IN  StoredEdges(e.src, e.dst, r) # {} /\ StoredEdges(e.dst, e.src, r) # {}
              /\ \A i \in 1..Len(edges) :
                    \/ SourceEdges(edges[i].src, edges[i].dst, edges[i].relation) # {}
                    \/ SourceEdges(edges[i].dst, edges[i].src, edges[i].relation) # {}

\* the one edge of an undirected source graph, between W and G with the
\* relation under `label`, has been stored as W -> G and as G -> W
C19_Witness ==
    /\ Loaded /\ ~raw.directed /\ Len(raw.edges) = 1
    /\ raw.edges[1].src = W /\ raw.edges[1].dst = G
    /\ raw.edges[1].attrs = [relation |-> Absent, label |-> "HAS_MUTATION",
                             type |-> Absent, name |-> Absent]
    /\ edges = <<[src |-> W, dst |-> G, relation |-> "HAS_MUTATION"],
                 [src |-> G, dst |-> W, relation |-> "HAS_MUTATION"]>>

----------------------------------------------------------------------------
(* Concurrent serving: several calls of query_knowledge_graph in progress on
   the one graph, interpreter and executor of the module; every call runs
   _extract_entity, the dispatch of interpret and the hops of execute as
   separate steps, interleaved with the steps of the other calls *)

MaxThreads == 2   \* calls in progress at once

Threads == 1..MaxThreads

ConcurrentQuestions ==
    { <<"W">>, <<"p", " ", "g", "e", "n", "e">>, <<"Z", "?">>, <<"?">> }

Idle ==
    [pc |-> "idle", question |-> <<>>, error |-> "none", plan |-> NoPlan,
     shared |-> "none", hop |-> 0, working |-> <<>>, overlap |-> FALSE]

InFlight(t) == inflight[t].pc \notin {"idle", "done"}

InitConcurrent ==
    /\ raw = ServingSource
    /\ nodes = LoadedNodes(raw)
    /\ node_attrs = LoadedAttrs(raw)
    /\ edges = LoadedEdges(raw)
    /\ helper_calls = 0
    /\ nlp \in {NoRuler, ExactRuler(nodes)}
    /\ similarity \in {PowerFirst, ByWording}
    /\ intent_templates = Catalog
    /\ prev = [op |-> "none"]
    /\ call = [op |-> "from_graphml"]
    /\ inflight = [t \in Threads |-> Idle]
    /\ GeneratorIdle

\* thread t moves to `new`; the other calls in progress have been overlapped
Advance(t, new) ==
    inflight' = [u \in Threads |->
                    IF u = t THEN new
                    ELSE IF InFlight(u) THEN [inflight[u] EXCEPT !.overlap = TRUE]
                    ELSE inflight[u]]

\* query_knowledge_graph(question) is entered
BeginQuery(t, query) ==
    /\ inflight[t].pc = "idle"
    /\ Advance(t, [inflight[t] EXCEPT !.pc = "extract", !.question = query])
    /\ UNCHANGED <<generator, nodes, node_attrs, edges, helper_calls, raw, nlp, similarity,
                   intent_templates, prev, call>>

\* step 1 of interpret: _extract_entity, and the raise when it returns None
ExtractEntity(t) ==
    /\ inflight[t].pc = "extract"
    /\ \E found \in {_extract_entity(nodes, nlp, inflight[t].question)} :
          Advance(t, IF found = None
                     THEN [inflight[t] EXCEPT !.pc = "done", !.error = "ValueError"]
                     ELSE [inflight[t] EXCEPT !.pc = "classify",
                                              !.plan.start_entity = found])
    /\ UNCHANGED <<generator, nodes, node_attrs, edges, helper_calls, raw, nlp, similarity,
                   intent_templates, prev, call>>

\* step 2 of interpret: node_type, the dispatch and the plan; execute is
\* entered with nodes = [start_entity]
Classify(t) ==
    /\ inflight[t].pc = "classify"
    /\ \E entity_type \in {node_type(nodes, node_attrs, inflight[t].plan.start_entity)} :
       \E d \in {Dispatch(entity_type, inflight[t].question, intent_templates,
                          similarity[inflight[t].question])} :
          Advance(t, [inflight[t] EXCEPT
                         !.pc = "execute",
                         !.plan = [start_entity |-> inflight[t].plan.start_entity,
                                   start_type |-> entity_type,
                                   relation_chain |-> d.relation_chain,
                                   target_type |-> TargetType(d.intent)],
                         !.shared = d.shared,
                         !.working = <<inflight[t].plan.start_entity>>])
    /\ UNCHANGED <<generator, nodes, node_attrs, edges, helper_calls, raw, nlp, similarity,
                   intent_templates, prev, call>>

\* plan["relation_chain"] as thread t sees it: the list stored in
\* intent_templates when the plan came from the semantic fallback, the list
\* built by interpret otherwise
LiveChain(t) ==
    IF inflight[t].shared # "none" THEN intent_templates[inflight[t].shared]
    ELSE inflight[t].plan.relation_chain

\* mutation: the loop of execute takes the relation off the list it iterates
ChainPopped(chain) == Tail(chain)

\* the list execute iterates, after one pass of `for rel in plan["relation_chain"]`
ChainAfterHop(chain) == chain

\* one pass of the loop of execute: the working list is replaced by nxt
Hop(t) ==
    /\ inflight[t].pc = "execute"
    /\ inflight[t].hop < Len(LiveChain(t))
    /\ Advance(t, [inflight[t] EXCEPT
                      !.hop = @ + 1,
                      !.working = Expand(nodes, edges, @, LiveChain(t)[inflight[t].hop + 1],
                                         inflight[t].plan.start_type)])
    /\ intent_templates' =
           IF inflight[t].shared # "none"
           THEN [intent_templates EXCEPT ![inflight[t].shared] = ChainAfterHop(@)]
           ELSE intent_templates
    /\ UNCHANGED <<generator, nodes, node_attrs, edges, helper_calls, raw, nlp, similarity, prev, call>>

\* the loop of execute is exhausted: `return nodes`, and the plan and the
\* result are handed to the caller
Return(t) ==
    /\ inflight[t].pc = "execute"
    /\ inflight[t].hop >= Len(LiveChain(t))
    /\ Advance(t, [inflight[t] EXCEPT !.pc = "done", !.plan.relation_chain = LiveChain(t)])
    /\ UNCHANGED <<generator, nodes, node_attrs, edges, helper_calls, raw, nlp, similarity,
                   intent_templates, prev, call>>

BeginQueryStep == \E t \in Threads, q \in ConcurrentQuestions : BeginQuery(t, q)

ExtractEntityStep == \E t \in Threads : ExtractEntity(t)

ClassifyStep == \E t \in Threads : Classify(t)

HopStep == \E t \in Threads : Hop(t)

ReturnStep == \E t \in Threads : Return(t)

NextConcurrent ==
    BeginQueryStep \/ ExtractEntityStep \/ ClassifyStep \/ HopStep \/ ReturnStep

SpecConcurrent == InitConcurrent /\ [][NextConcurrent]_vars

\* what the call of thread t returns when it runs alone on the graph as loaded
Alone(t) ==
    interpret(LoadedNodes(raw), LoadedAttrs(raw), nlp, Catalog,
              similarity[inflight[t].question], inflight[t].question)

ReturnedAsAlone(t) ==
    inflight[t].pc = "done" =>
        /\ inflight[t].error = Alone(t).error
        /\ inflight[t].error = "none" =>
              /\ inflight[t].plan = Alone(t).plan
              /\ inflight[t].working =
                     execute(LoadedNodes(raw), LoadedEdges(raw), Alone(t).plan)

SharedUntouched ==
    /\ nodes' = nodes /\ node_attrs' = node_attrs /\ edges' = edges
    /\ nlp' = nlp /\ similarity' = similarity /\ intent_templates' = intent_templates

\* C20: whatever the interleaving of the steps of the calls in progress, no
\* step changes the nodes, the edges or the attributes of the graph, the
\* recognizer, the scores of the templates or the template chains, and every
\* call that has returned has the error, the plan and the result it gets
\* when it runs alone.
C20_ConcurrentCallsIndependent ==
    [](\A t \in Threads : ReturnedAsAlone(t)) /\ [][SharedUntouched]_vars

\* two calls whose plans hold the same template chain have overlapped, and
\* the one of thread 1 has returned its result
C20_Witness ==
    /\ inflight # <<>>
    /\ inflight[1].pc = "done" /\ inflight[1].overlap
    /\ inflight[1].shared # "none" /\ inflight[2].shared = inflight[1].shared
    /\ inflight[2].pc = "execute" /\ inflight[2].hop = 1
    /\ inflight[1].working = <<PowerP>>

----------------------------------------------------------------------------
(* generate_data.py: the loop over CHARACTERS that assigns the ids *)

MaxCharacters == 3

TeamNames == {"X-Men", "Avengers"}
GeneNames == {"X-Gene", "Serum"}
PowerLists == {<<>>, <<"Healing">>, <<"Healing", "Flight">>, <<"Flight", "Healing">>,
               <<"Flight", "Flight">>}

\* the entries CHARACTERS may hold (the snippet plays no part in the ids)
Heroes ==
    {[name |-> "hero", team |-> t, gene |-> g, powers |-> ps] :
        t \in TeamNames, g \in GeneNames, ps \in PowerLists}

InitGenerate ==
    /\ nodes = <<>>
    /\ node_attrs = <<>>
    /\ edges = <<>>
    /\ raw = EmptySource
    /\ helper_calls = 0
    /\ inflight = <<>>
    /\ nlp = NoRuler
    /\ similarity = PowerFirst
    /\ intent_templates = Catalog
    /\ prev = [op |-> "none"]
    /\ call = [op |-> "generate_data"]
    /\ GeneratorIdle

\* one pass of the loop body, for the next entry of CHARACTERS
ProcessHero(hero) ==
    /\ Len(heroes) < MaxCharacters
    /\ LET cid == Len(heroes) + 1
           t == next_id(team_ids, hero.team)
           g == next_id(gene_ids, hero.gene)
           p == PowerLoop([power_ids |-> power_ids, powers |-> rows.powers,
                           gene_power |-> rows.gene_power, char_power |-> rows.char_power],
                          cid, g.id, hero.powers)
       IN  /\ team_ids' = t.counter
           /\ gene_ids' = g.counter
           /\ power_ids' = p.power_ids
           /\ rows' =
                 [characters |-> Append(rows.characters,
                                        [character_id |-> cid, name |-> hero.name]),
                  teams |-> AppendIfNew(rows.teams, t.id,
                                        [team_id |-> t.id, name |-> hero.team]),
                  genes |-> AppendIfNew(rows.genes, g.id,
                                        [gene_id |-> g.id, name |-> hero.gene]),
                  powers |-> p.powers,
                  char_team |-> Append(rows.char_team,
                                       [character_id |-> cid, team_id |-> t.id]),
                  char_gene |-> Append(rows.char_gene,
                                       [character_id |-> cid, gene_id |-> g.id]),
                  gene_power |-> p.gene_power,
                  char_power |-> p.char_power]
           /\ heroes' = Append(heroes, hero)
    /\ call' = [op |-> "generate_data", cid |-> Len(heroes) + 1]
    /\ UNCHANGED <<inflight, nodes, node_attrs, edges, helper_calls, raw, nlp, similarity,
                   intent_templates, prev>>

ProcessHeroStep == \E hero \in Heroes : ProcessHero(hero)

NextGenerate == ProcessHeroStep

SpecGenerate == InitGenerate /\ [][NextGenerate]_vars

\* the names in the order of their first appearance in the sequence seen
RECURSIVE FirstAppearances(_)
FirstAppearances(seen) ==
    IF seen = <<>> THEN <<>>
    ELSE LET before == FirstAppearances(SubSeq(seen, 1, Len(seen) - 1))
             last == seen[Len(seen)]
         IN  IF \E i \in 1..Len(before) : before[i] = last THEN before
             ELSE Append(before, last)

TeamsSeen == [i \in 1..Len(heroes) |-> heroes[i].team]
GenesSeen == [i \in 1..Len(heroes) |-> heroes[i].gene]
PowersSeen == Flatten([i \in 1..Len(heroes) |-> heroes[i].powers])

\* the table holds one row per name seen, in the order of first appearance,
\* numbered 1, 2, ... and the counter maps every name to the id of its row
Ranked(table, id, counter, seen) ==
    LET order == FirstAppearances(seen)
    IN  /\ Len(table) = Len(order)
        /\ \A k \in 1..Len(order) : table[k].name = order[k] /\ table[k][id] = k
        /\ DOMAIN counter = Range(order)
        /\ \A k \in 1..Len(order) : counter[order[k]] = k

\* C26: after any prefix of CHARACTERS every team, gene and power name seen
\* has exactly one row, its id is its rank by first appearance, the ids are
\* 1..number of names, and every link row refers to ids its tables hold.
C26_DenseFirstAppearanceIds ==
    /\ Ranked(rows.teams, "team_id", team_ids, TeamsSeen)
    /\ Ranked(rows.genes, "gene_id", gene_ids, GenesSeen)
    /\ Ranked(rows.powers, "power_id", power_ids, PowersSeen)
    /\ Len(rows.characters) = Len(heroes)
    /\ \A i \in 1..Len(rows.characters) : rows.characters[i].character_id = i
    /\ \A i \in 1..Len(rows.char_team) :
          /\ rows.char_team[i].character_id \in 1..Len(rows.characters)
          /\ rows.char_team[i].team_id \in 1..Len(rows.teams)
    /\ \A i \in 1..Len(rows.char_gene) :
          /\ rows.char_gene[i].character_id \in 1..Len(rows.characters)
          /\ rows.char_gene[i].gene_id \in 1..Len(rows.genes)
    /\ \A i \in 1..Len(rows.gene_power) :
          /\ rows.gene_power[i].gene_id \in 1..Len(rows.genes)
          /\ rows.gene_power[i].power_id \in 1..Len(rows.powers)
    /\ \A i \in 1..Len(rows.char_power) :
          /\ rows.char_power[i].character_id \in 1..Len(rows.characters)
          /\ rows.char_power[i].power_id \in 1..Len(rows.powers)

\* three heroes of the teams X-Men, Avengers, X-Men: two team rows, and the
\* third hero linked to team 1 again; Flight seen before Healing
C26_Witness ==
    /\ Len(heroes) = 3
    /\ TeamsSeen = <<"X-Men", "Avengers", "X-Men">>
    /\ rows.teams = <<[team_id |-> 1, name |-> "X-Men"], [team_id |-> 2, name |-> "Avengers"]>>
    /\ rows.char_team[3] = [character_id |-> 3, team_id |-> 1]
    /\ DOMAIN power_ids = {"Flight", "Healing"}
    /\ power_ids["Flight"] = 1 /\ power_ids["Healing"] = 2
    /\ Len(rows.char_power) > Len(rows.powers)

====
